---- MODULE Spec2Model ----
(***************************************************************************)
(* The neural stack of src/structs/legacy/stack.py (Grefenstette et al.,   *)
(* 2015) as a state machine, followed by the data generation and the       *)
(* training loop of src/cfg.py and the task classes of src/tasks.          *)
(* Strengths and read values are fixed-point numbers: the integer n stands *)
(* for n / Scale, so Scale is the 1 of F.relu(1 - used).  Float rounding   *)
(* is not modelled.                                                        *)
(*                                                                         *)
(* Tensors: a 1-D tensor is a sequence of integers; a tensor of more       *)
(* dimensions is a sequence of tensors (outermost dimension first).  The   *)
(* push argument v arrives as a contiguous 2-D tensor, a record of its     *)
(* shape and its row-major data, so that v.view(...) can be modelled.      *)
(***************************************************************************)
EXTENDS Integers, Sequences, FiniteSets, TLC

VARIABLES
    batch_size,      \* self.batch_size
    embedding_size,  \* self.embedding_size
    k,               \* self.k: None, or <<n>> for n read vectors
    zero,            \* self.zero
    V,               \* self.V, [t, batch_size, embedding_size]
    s,               \* self.s, [t, batch_size]
    r,               \* the read returned by the last completed forward call
    pre,             \* V, s, r as they were before the last forward call
    trace,           \* the forward calls made so far: arguments and outcome
    twin,            \* V, s, r of a second stack, driven with rearranged arguments
    perm,            \* how the twin's batch is ordered: element b sits at perm[b]
    foreign,         \* the batch elements whose arguments the twin gets changed
    args,            \* the task or function under study and the inputs given to it
    ret,             \* what it returned: Pending until it has run
    task,            \* the task object once constructed: its attributes
    pc,              \* where the script src/cfg.py is
    epoch,           \* its variable epoch
    frame,           \* the local variables i, batch, j, X of train and evaluate
    train_X,         \* the training set: the examples, by number, in their order
    model_stack,     \* the length of the log of the controller's stack
    batches,         \* the mini-batches trained on so far in this epoch
    events,          \* the calls made on the model and the optimizer since the
                     \* last init_stack, that call included
    prev             \* events as it was when the last init_stack was called

stackVars == <<batch_size, embedding_size, k, zero, V, s, r, pre, trace, twin, perm, foreign>>

taskVars == <<args, ret, task>>

loopVars == <<pc, epoch, frame, train_X, model_stack, batches, events, prev>>

vars == <<stackVars, taskVars, loopVars>>

\* the script is not running
LoopIdle ==
    /\ pc = "idle" /\ epoch = 0 /\ frame = <<>> /\ train_X = <<>>
    /\ model_stack = 0 /\ batches = <<>> /\ events = <<>> /\ prev = <<>>

NoLoop == UNCHANGED loopVars

\* no task function is under study
TaskIdle == args = <<>> /\ ret = <<>> /\ task = <<>> /\ LoopIdle

NoTask == UNCHANGED taskVars /\ NoLoop

-----------------------------------------------------------------------------
(* Numbers and tensors *)

Scale == 10

None == <<>>

\* torch.FloatTensor(0): a tensor without elements
EmptyTensor == <<>>

relu(x) == IF x > 0 THEN x ELSE 0

min(x, y) == IF x < y THEN x ELSE y

\* element i of a 1-D tensor under broadcasting (a length-1 tensor is expanded)
At(a, i) == IF Len(a) = 1 THEN a[1] ELSE a[i]

Broadcastable(a, b) == Len(a) = Len(b) \/ Len(a) = 1 \/ Len(b) = 1

BroadcastLen(a, b) == IF Len(a) >= Len(b) THEN Len(a) ELSE Len(b)

\* a - b on 1-D tensors
Sub(a, b) == [i \in 1..BroadcastLen(a, b) |-> At(a, i) - At(b, i)]

\* F.relu on a 1-D tensor
Relu(a) == [i \in 1..Len(a) |-> relu(a[i])]

\* torch.min(a, b) on 1-D tensors
Min(a, b) == [i \in 1..BroadcastLen(a, b) |-> min(At(a, i), At(b, i))]

\* torch.zeros(n)
Zeros(n) == [i \in 1..n |-> 0]

\* torch.zeros([n, m])
Zeros2(n, m) == [i \in 1..n |-> Zeros(m)]

Numel(v) == v.shape[1] * v.shape[2]

\* v.view(1, batch_size, embedding_size) succeeds when the element counts agree
ViewOk(v, B, E) == Numel(v) = B * E

\* the [B, E] matrix that the view lays over v's row-major data
View(v, B, E) == [b \in 1..B |-> [e \in 1..E |-> v.data[(b - 1) * E + e]]]

\* the sum of all elements of a [n, B] tensor
RECURSIVE SumOfAll(_)
SumOfAll(rows) ==
    IF rows = <<>> THEN 0
    ELSE IF Len(rows[1]) = 0 THEN SumOfAll(Tail(rows))
    ELSE rows[1][1] + SumOfAll(<<Tail(rows[1])>> \o Tail(rows))

\* SumDim0 without the dimension: torch.sum(rows), broadcast over the batch
SumNoDim(rows) == [b \in 1..Len(rows[1]) |-> SumOfAll(rows)]

\* torch.sum(rows, 0) of a [n, B] tensor with n >= 1
RECURSIVE SumDim0(_)
SumDim0(rows) ==
    IF Len(rows) = 1 THEN rows[1]
    ELSE [b \in 1..Len(rows[1]) |-> rows[1][b] + SumDim0(Tail(rows))[b]]

\* coeffs.view(batch_size, 1).repeat(1, embedding_size) * M
MulRepeat(coeffs, M, B, E) == [b \in 1..B |-> [e \in 1..E |-> coeffs[b] * M[b][e]]]

MAdd(M, N) == [b \in 1..Len(M) |-> [e \in 1..Len(M[b]) |-> M[b][e] + N[b][e]]]

MSub(M, N) == [b \in 1..Len(M) |-> [e \in 1..Len(M[b]) |-> M[b][e] - N[b][e]]]

-----------------------------------------------------------------------------
(* Stack.forward *)

\* PushV with the first vector stored twice (the empty tensor kept as a row)
PushVKeepsEmptyRow(self_V, v) == IF Len(self_V) # 0 THEN self_V \o <<v>> ELSE <<v, v>>

\* PushV putting the new vector in front of the log
PushVInFront(self_V, v) == <<v>> \o self_V

\* torch.cat([self.V, v], 0) if len(self.V.data) != 0 else v
PushV(self_V, v) == IF Len(self_V) # 0 THEN self_V \o <<v>> ELSE <<v>>

\* self.s.data.shape[0] if self.s.data.shape else 0
OldT(self_s) == IF self_s # EmptyTensor THEN Len(self_s) ELSE 0

\* torch.FloatTensor(n, B): n rows of B slots that hold no defined value yet;
\* the marker is outside every strength range, forward overwrites every slot
Uninitialized(n, B) == [i \in 1..n |-> [b \in 1..B |-> 0 - 1]]

\* StrengthLoop without the rectifier on the remaining pop mass
RECURSIVE StrengthLoopUnclampedW(_, _, _, _)
StrengthLoopUnclampedW(self_s, s_new, w, i) ==
    IF i < 0 THEN s_new
    ELSE LET s_ == Relu(Sub(self_s[i + 1], w))
             w_ == Sub(w, self_s[i + 1])
         IN  StrengthLoopUnclampedW(self_s, [s_new EXCEPT ![i + 1] = s_], w_, i - 1)

\* StrengthLoop that never reduces the pop mass
RECURSIVE StrengthLoopKeepsW(_, _, _, _)
StrengthLoopKeepsW(self_s, s_new, w, i) ==
    IF i < 0 THEN s_new
    ELSE LET s_ == Relu(Sub(self_s[i + 1], w))
         IN  StrengthLoopKeepsW(self_s, [s_new EXCEPT ![i + 1] = s_], w, i - 1)

\* StrengthLoop without the rectifier on the new strength
RECURSIVE StrengthLoopUnclampedS(_, _, _, _)
StrengthLoopUnclampedS(self_s, s_new, w, i) ==
    IF i < 0 THEN s_new
    ELSE LET s_ == Sub(self_s[i + 1], w)
             w_ == Relu(Sub(w, self_s[i + 1]))
         IN  StrengthLoopUnclampedS(self_s, [s_new EXCEPT ![i + 1] = s_], w_, i - 1)

\* StrengthLoop walking the log from the oldest entry upwards, so that the
\* pop mass is taken from the bottom first
RECURSIVE StrengthUp(_, _, _, _, _)
StrengthUp(self_s, s_new, w, i, top) ==
    IF i > top THEN s_new
    ELSE LET s_ == Relu(Sub(self_s[i + 1], w))
             w_ == Relu(Sub(w, self_s[i + 1]))
         IN  StrengthUp(self_s, [s_new EXCEPT ![i + 1] = s_], w_, i + 1, top)

StrengthLoopBottomUp(self_s, s_new, w, i) == StrengthUp(self_s, s_new, w, 0, i)

\* the loop "for i in reversed(xrange(old_t))", entered at i = old_t - 1 with w = u
RECURSIVE StrengthLoop(_, _, _, _)
StrengthLoop(self_s, s_new, w, i) ==
    IF i < 0 THEN s_new
    ELSE LET s_ == Relu(Sub(self_s[i + 1], w))
             w_ == Relu(Sub(w, self_s[i + 1]))
         IN  StrengthLoop(self_s, [s_new EXCEPT ![i + 1] = s_], w_, i - 1)

\* the subtractions of the loop broadcast: they fail when u is neither of
\* length 1 nor of the length of a row of self.s; without a row u is never read
LoopOk(self_s, u) == OldT(self_s) = 0 \/ Broadcastable(self_s[1], u)

\* s[old_t, :] = d
SetRowOk(d, B) == Len(d) = B \/ Len(d) = 1

SetRow(d, B) == [b \in 1..B |-> At(d, b)]

\* lines 47-56: the new strength tensor
UpdateS(self_s, u, d, B) ==
    LET old_t == OldT(self_s)
        s0 == Uninitialized(old_t + 1, B)
        s1 == StrengthLoop(self_s, s0, u, old_t - 1)
    IN  [s1 EXCEPT ![old_t + 1] = SetRow(d, B)]

\* Used with the slice starting at i instead of i + 1
UsedWithSelf(self_s, self_zero, i, old_t) ==
    IF i < old_t THEN SumDim0(SubSeq(self_s, i + 1, old_t + 1)) ELSE self_zero

\* torch.sum(self.s[i + 1:old_t + 1, :], 0) if i < old_t else self.zero
Used(self_s, self_zero, i, old_t) ==
    IF i < old_t THEN SumDim0(SubSeq(self_s, i + 2, old_t + 1)) ELSE self_zero

\* Coeffs without the minimum with the entry's own strength
CoeffsNoMin(self_s, self_zero, i, old_t, T) ==
    Relu(Sub(<<T * Scale>>, Used(self_s, self_zero, i, old_t)))

\* Coeffs without the cap by the headroom left under the threshold
CoeffsNoCap(self_s, self_zero, i, old_t, T) == self_s[i + 1]

\* Coeffs with the subtraction turned around: relu(used - T)
CoeffsSubReversed(self_s, self_zero, i, old_t, T) ==
    Min(self_s[i + 1], Relu(Sub(Used(self_s, self_zero, i, old_t), <<T * Scale>>)))

\* torch.min(self.s[i, :], F.relu(T - used)); T is 1 for the single read and
\* 1 + k for read level k
Coeffs(self_s, self_zero, i, old_t, T) ==
    Min(self_s[i + 1], Relu(Sub(<<T * Scale>>, Used(self_s, self_zero, i, old_t))))

\* the loop "for i in reversed(xrange(old_t + 1))" accumulating into acc
RECURSIVE ReadLoop(_, _, _, _, _, _, _, _, _)
ReadLoop(self_V, self_s, self_zero, B, E, old_t, T, i, acc) ==
    IF i < 0 THEN acc
    ELSE ReadLoop(self_V, self_s, self_zero, B, E, old_t, T, i - 1,
                  MAdd(acc, MulRepeat(Coeffs(self_s, self_zero, i, old_t, T),
                                      self_V[i + 1], B, E)))

\* lines 60-67: the single read, [batch_size, embedding_size]
Read1(self_V, self_s, self_zero, B, E, old_t) ==
    ReadLoop(self_V, self_s, self_zero, B, E, old_t, 1, old_t, Zeros2(B, E))

\* r[:, kk, :] of a [B, K, E] tensor
GetLevel(rr, kk) == [b \in 1..Len(rr) |-> rr[b][kk + 1]]

\* r[:, kk, :] = M
SetLevel(rr, kk, M) == [b \in 1..Len(rr) |-> [rr[b] EXCEPT ![kk + 1] = M[b]]]

\* torch.zeros([B, K, E])
Zeros3(B, K, E) == [b \in 1..B |-> Zeros2(K, E)]

\* lines 74-79: "for k in xrange(self.k)", each level accumulated by the inner
\* loop over the log with threshold 1 + k
RECURSIVE LevelLoop(_, _, _, _, _, _, _, _, _)
LevelLoop(self_V, self_s, self_zero, B, E, old_t, K, kk, rr) ==
    IF kk >= K THEN rr
    ELSE LevelLoop(self_V, self_s, self_zero, B, E, old_t, K, kk + 1,
                   SetLevel(rr, kk,
                            ReadLoop(self_V, self_s, self_zero, B, E, old_t,
                                     1 + kk, old_t, GetLevel(rr, kk))))

\* SubtractLoop walking the levels upwards, so that level k - 1 is already a
\* difference when it is subtracted from level k
RECURSIVE SubtractUp(_, _, _)
SubtractUp(rr, kk, top) ==
    IF kk > top THEN rr
    ELSE SubtractUp(SetLevel(rr, kk, MSub(GetLevel(rr, kk), GetLevel(rr, kk - 1))),
                    kk + 1, top)

SubtractLoopAscending(rr, kk) == SubtractUp(rr, 1, kk)

\* SubtractLoop left out: every level keeps its cumulative read
SubtractLoopSkipped(rr, kk) == rr

\* lines 80-81: "for k in reversed(xrange(1, self.k)): r[k] = r[k] - r[k - 1]"
RECURSIVE SubtractLoop(_, _)
SubtractLoop(rr, kk) ==
    IF kk < 1 THEN rr
    ELSE SubtractLoop(SetLevel(rr, kk, MSub(GetLevel(rr, kk), GetLevel(rr, kk - 1))),
                      kk - 1)

\* lines 73-82: the k reads, [batch_size, self.k, embedding_size]
ReadK(self_V, self_s, self_zero, B, E, old_t, K) ==
    SubtractLoop(LevelLoop(self_V, self_s, self_zero, B, E, old_t, K, 0,
                           Zeros3(B, K, E)),
                 K - 1)

\* lines 58-82: the read of the updated stack
Read(self_V, self_s, self_zero, self_k, B, E, old_t) ==
    IF self_k = None
    THEN Read1(self_V, self_s, self_zero, B, E, old_t)
    ELSE ReadK(self_V, self_s, self_zero, B, E, old_t, self_k[1])

\* lines 47-82 once v is pushed: the strength update, then the read
UpdateAndRead(self, V1, u, d, s1) ==
    [V |-> V1, s |-> s1, raised |-> FALSE,
     r |-> Read(V1, s1, self.zero, self.k, self.batch_size, self.embedding_size,
                OldT(self.s))]

\* lines 42-82
PushAndUpdate(self, V1, u, d) ==
    IF ~LoopOk(self.s, u) \/ ~SetRowOk(d, self.batch_size)
    THEN [V |-> V1, s |-> self.s, r |-> <<>>, raised |-> TRUE]
    ELSE UpdateAndRead(self, V1, u, d, UpdateS(self.s, u, d, self.batch_size))

\* Stack.forward(v, u, d) on the stack object self: the object's V and s after
\* the call, the value returned, and whether the call raised
forward(self, v, u, d) ==
    IF ~ViewOk(v, self.batch_size, self.embedding_size)
    THEN [V |-> self.V, s |-> self.s, r |-> <<>>, raised |-> TRUE]
    ELSE PushAndUpdate(self,
                       PushV(self.V, View(v, self.batch_size, self.embedding_size)),
                       u, d)

\* Stack.__init__(batch_size, embedding_size, k)
StackInit(B, E, kk) ==
    /\ batch_size = B
    /\ embedding_size = E
    /\ k = kk
    /\ zero = Zeros(B)
    /\ V = EmptyTensor
    /\ s = EmptyTensor
    /\ r = <<>>
    /\ pre = [V |-> EmptyTensor, s |-> EmptyTensor, r |-> <<>>]
    /\ trace = <<>>

Self == [V |-> V, s |-> s, k |-> k, zero |-> zero,
         batch_size |-> batch_size, embedding_size |-> embedding_size]

\* the second stack object: same construction, its own log
TwinSelf == [V |-> twin.V, s |-> twin.s, k |-> k, zero |-> zero,
             batch_size |-> batch_size, embedding_size |-> embedding_size]

TwinInit(p, f) ==
    /\ twin = [V |-> EmptyTensor, s |-> EmptyTensor, r |-> <<>>]
    /\ perm = p
    /\ foreign = f

\* the element of the first stack that sits at position q of the twin
Origin(q) == CHOOSE b \in 1..batch_size : perm[b] = q

\* the twin's arguments: element b moved to position perm[b]; the elements in
\* foreign get another vector and the complementary strengths
TwinV(v) ==
    [shape |-> v.shape,
     data |-> [n \in 1..batch_size * embedding_size |->
                 LET q == ((n - 1) \div embedding_size) + 1
                     e == ((n - 1) % embedding_size) + 1
                     x == v.data[(Origin(q) - 1) * embedding_size + e]
                 IN  IF Origin(q) \in foreign THEN x + 1 ELSE x]]

TwinStrength(u) ==
    [q \in 1..batch_size |->
        IF Origin(q) \in foreign THEN Scale - u[Origin(q)] ELSE u[Origin(q)]]

\* one call stack.forward(v, u, d); a call that raises returns nothing
Forward(v, u, d) ==
    \E res \in {forward(Self, v, u, d)} :
        /\ V' = res.V
        /\ s' = res.s
        /\ r' = IF res.raised THEN r ELSE res.r
        /\ pre' = [V |-> V, s |-> s, r |-> r]
        /\ trace' = Append(trace, [v |-> v, u |-> u, d |-> d, raised |-> res.raised])
        /\ UNCHANGED <<batch_size, embedding_size, k, zero>>

\* the corresponding call on the twin, with the arguments rearranged
TwinForward(v, u, d) ==
    \E res \in {forward(TwinSelf, TwinV(v), TwinStrength(u), TwinStrength(d))} :
        /\ twin' = [V |-> res.V, s |-> res.s,
                    r |-> IF res.raised THEN twin.r ELSE res.r]
        /\ UNCHANGED <<perm, foreign>>

\* the twin is not driven
NoTwin == UNCHANGED <<twin, perm, foreign>>

-----------------------------------------------------------------------------
(* Inputs *)

\* the [B, E] tensors with entries in Vals
Matrices(B, E, Vals) == {[shape |-> <<B, E>>, data |-> dd] : dd \in [1..B * E -> Vals]}

\* the length-n tensors with entries in Vals
Vectors(n, Vals) == [1..n -> Vals]

\* push values
Vals == {1, 2}

\* pop and push strengths in [0, 1]
Levels == {0, 4, Scale}

MaxT == 3

\* Stack(1, 1): batch size 1, embedding size 1, single read, driven with
\* well-shaped arguments
Init == StackInit(1, 1, None) /\ TwinInit(<<1>>, {}) /\ TaskIdle

Next ==
    /\ Len(trace) < MaxT
    /\ \E v \in Matrices(batch_size, embedding_size, Vals),
          u \in Vectors(batch_size, Levels),
          d \in Vectors(batch_size, Levels) : Forward(v, u, d) /\ NoTwin /\ NoTask

Spec == Init /\ [][Next]_vars

\* Stack(1, 1, k=MaxK): the same with MaxK read vectors
MaxK == 3

InitMulti == StackInit(1, 1, <<MaxK>>) /\ TwinInit(<<1>>, {}) /\ TaskIdle

SpecMulti == InitMulti /\ [][Next]_vars

\* Discrete driving: every pop and push strength is exactly 0 or 1
MaxTHard == 4

InitHard == StackInit(1, 1, None) /\ TwinInit(<<1>>, {}) /\ TaskIdle

NextHard ==
    /\ Len(trace) < MaxTHard
    /\ \E v \in Matrices(batch_size, embedding_size, Vals),
          u \in Vectors(batch_size, {0, Scale}),
          d \in Vectors(batch_size, {0, Scale}) : Forward(v, u, d) /\ NoTwin /\ NoTask

SpecHard == InitHard /\ [][NextHard]_vars

\* The calls of the self-test under "__main__", lines 103-123, in tenths; the
\* [[x]] pop and push arguments are taken as the length-1 tensors they act as
TestCalls ==
    << [v |-> [shape |-> <<1, 1>>, data |-> <<1>>], u |-> <<0>>, d |-> <<8>>],
       [v |-> [shape |-> <<1, 1>>, data |-> <<2>>], u |-> <<1>>, d |-> <<5>>],
       [v |-> [shape |-> <<1, 1>>, data |-> <<3>>], u |-> <<9>>, d |-> <<9>>] >>

MaxTTest == 4

\* stack = Stack(1, 1), line 101
InitTest == StackInit(1, 1, None) /\ TwinInit(<<1>>, {}) /\ TaskIdle

\* the self-test's calls, in any order
NextTest ==
    /\ Len(trace) < MaxTTest
    /\ \E n \in 1..Len(TestCalls) :
          Forward(TestCalls[n].v, TestCalls[n].u, TestCalls[n].d) /\ NoTwin /\ NoTask

SpecTest == InitTest /\ [][NextTest]_vars

\* A batch of two, embedding size 2, with a twin stack that gets the batch in
\* another order and other arguments for the elements in foreign
MaxTBatch == 2

BatchV == {[shape |-> <<2, 2>>, data |-> dd] : dd \in {<<1, 2, 3, 1>>, <<2, 1, 1, 3>>}}

BatchU == {<<0, 6>>, <<6, 0>>, <<4, Scale>>, <<Scale, 4>>}

BatchD == {<<4, Scale>>, <<Scale, 4>>}

Perms(B) == {p \in [1..B -> 1..B] : \A b, c \in 1..B : p[b] = p[c] => b = c}

InitBatch ==
    \E kk \in {None, <<2>>}, p \in Perms(2), f \in {{}, {1}, {2}} :
        StackInit(2, 2, kk) /\ TwinInit(p, f) /\ TaskIdle

NextBatch ==
    /\ Len(trace) < MaxTBatch
    /\ \E v \in BatchV, u \in BatchU, d \in BatchD :
          Forward(v, u, d) /\ TwinForward(v, u, d) /\ NoTask

SpecBatch == InitBatch /\ [][NextBatch]_vars

\* Arguments of any shape: v a 2-D tensor of any small shape holding 1, 2, ...,
\* u and d of any small length
MaxTShapes == 2

Iota(n) == [i \in 1..n |-> i]

ShapesV == {[shape |-> <<n, m>>, data |-> Iota(n * m)] : n \in 1..2, m \in 1..2}

Constant(n, x) == [i \in 1..n |-> x]

InitShapes ==
    \E B \in 1..2, E \in 1..2 : StackInit(B, E, None) /\ TwinInit(Iota(B), {}) /\ TaskIdle

NextShapes ==
    /\ Len(trace) < MaxTShapes
    /\ \E v \in ShapesV, n \in 1..3, m \in {batch_size, batch_size + 1} :
          Forward(v, Constant(n, 4), Constant(m, Scale)) /\ NoTwin /\ NoTask

SpecShapes == InitShapes /\ [][NextShapes]_vars

-----------------------------------------------------------------------------
(* Vocabulary of the properties *)

Last == trace[Len(trace)]

\* the last forward call returned
Completed == trace # <<>> /\ ~Last.raised

Batch == 1..batch_size

Emb == 1..embedding_size

AtLeastZero(x) == IF x < 0 THEN 0 ELSE x

Smaller(x, y) == IF x <= y THEN x ELSE y

\* the strengths of batch element b in the entries of log ss pushed after entry i
RECURSIVE SumAbove(_, _, _)
SumAbove(ss, i, b) == IF i >= Len(ss) THEN 0 ELSE ss[i + 1][b] + SumAbove(ss, i + 1, b)

\* the weight of entry i for batch element b in a read with threshold T
Weight(T, i, b) == Smaller(s[i][b], AtLeastZero(T * Scale - SumAbove(s, i, b)))

\* the read with threshold T: sum over the log entries 1..n of weight * vector
RECURSIVE Blend(_, _, _, _)
Blend(T, n, b, e) ==
    IF n = 0 THEN 0 ELSE Weight(T, n, b) * V[n][b][e] + Blend(T, n - 1, b, e)

\* the total weight of the entries 1..n in a read with threshold T
RECURSIVE TotalWeight(_, _, _)
TotalWeight(T, n, b) ==
    IF n = 0 THEN 0 ELSE Weight(T, n, b) + TotalWeight(T, n - 1, b)

-----------------------------------------------------------------------------
\* A fresh stack of either read mode and its first calls, well-shaped
MaxTFirst == 1

InitFirst ==
    \E B \in 1..2, kk \in {None, <<MaxK>>} :
        StackInit(B, 1, kk) /\ TwinInit(Iota(B), {}) /\ TaskIdle

NextFirst ==
    /\ Len(trace) < MaxTFirst
    /\ \E v \in Matrices(batch_size, embedding_size, Vals),
          u \in Vectors(batch_size, {0, Scale}),
          d \in Vectors(batch_size, Levels) : Forward(v, u, d) /\ NoTwin /\ NoTask

SpecFirst == InitFirst /\ [][NextFirst]_vars

-----------------------------------------------------------------------------
(* The task classes of src/tasks: calls and what they return *)

\* the call has not run yet
Pending == [done |-> FALSE]

\* the call returned x
Returned(x) == [done |-> TRUE, raised |-> FALSE, value |-> x]

\* the call ended in the exception named x
Raised(x) == [done |-> TRUE, raised |-> TRUE, value |-> x]

\* the stack is not under study
StackIdle == StackInit(1, 1, None) /\ TwinInit(<<1>>, {})

NoStack == UNCHANGED stackVars

\* unicode(i) for the small numbers used as symbols
Unicode(i) == <<"0", "1", "2", "3", "4">>[i + 1]

\* int(w) for the symbols unicode(i) makes
ToInt(w) == CHOOSE i \in 0..4 : Unicode(i) = w

\* a terminal of a grammar is a string, a nonterminal a gr.Nonterminal
Terminal(x) == [terminal |-> TRUE, name |-> x]

Nonterminal(x) == [terminal |-> FALSE, name |-> x]

\* gr.is_terminal(x)
is_terminal(x) == x.terminal

\* the items of sequence q
Items(q) == {q[i] : i \in 1..Len(q)}

\* the orders in which iterating over the set S can yield its elements
Orders(S) == {q \in [1..Cardinality(S) -> S] : Items(q) = S}

\* {x: i for i, x in enumerate(rhs_symbols)}, rhs_symbols yielded in order q
Enumerate(q) == [x \in Items(q) |-> (CHOOSE i \in 1..Len(q) : q[i] = x) - 1]

\* len(alphabet) for a dict
DictLen(alphabet) == Cardinality(DOMAIN alphabet)

\* alphabet[key] = value
DictSet(alphabet, key, value) ==
    [x \in DOMAIN alphabet \cup {key} |-> IF x = key THEN value ELSE alphabet[x]]

\* the terminals on the right-hand sides of the productions of grammar
RhsTerminals(grammar) ==
    {x.name : x \in {y \in UNION {Items(p.rhs) : p \in grammar} : is_terminal(y)}}

\* CFGTask._init_alphabet(null), the set of terminals yielded in order q
CFGTask_init_alphabet(q, null) == DictSet(Enumerate(q), null, DictLen(Enumerate(q)))

\* ReverseTask.Params: self.null = unicode(self.num_symbols)
ReverseNull(num_symbols) == Unicode(num_symbols)

\* ReverseTask._init_alphabet(null)
ReverseTask_init_alphabet(num_symbols) ==
    [w \in {Unicode(i) : i \in 0..num_symbols} |-> ToInt(w)]

\* the productions grammars are made of
Productions ==
    {[lhs |-> "S", rhs |-> <<Terminal("("), Nonterminal("S"), Terminal(")")>>],
     [lhs |-> "S", rhs |-> <<Nonterminal("S"), Nonterminal("S")>>],
     [lhs |-> "S", rhs |-> <<Terminal("("), Terminal(")")>>],
     [lhs |-> "S", rhs |-> <<Terminal("["), Nonterminal("T"), Terminal("]")>>],
     [lhs |-> "T", rhs |-> <<Terminal("#")>>],
     [lhs |-> "T", rhs |-> <<>>]}

\* the grammars with at least one production
Grammars == SUBSET Productions \ {{}}

\* the null symbols given to a CFGTask
Nulls == {"#", "(", "null"}

MaxSymbols == 3

\* a task object about to build its alphabet
InitAlphabet ==
    /\ StackIdle /\ LoopIdle
    /\ ret = Pending /\ task = <<>>
    /\ \/ \E g \in Grammars, null \in Nulls :
             args = [task |-> "CFGTask", grammar |-> g, null |-> null]
       \/ \E n \in 1..MaxSymbols :
             args = [task |-> "ReverseTask", num_symbols |-> n, null |-> ReverseNull(n)]

\* self.alphabet = self._init_alphabet(self.null) of a CFGTask
CFGAlphabet ==
    /\ ret = Pending /\ args.task = "CFGTask"
    /\ \E q \in Orders(RhsTerminals(args.grammar)) :
          ret' = Returned(CFGTask_init_alphabet(q, args.null))
    /\ UNCHANGED <<args, task>> /\ NoStack /\ NoLoop

\* self.alphabet = self._init_alphabet(self.null) of a ReverseTask
ReverseAlphabet ==
    /\ ret = Pending /\ args.task = "ReverseTask"
    /\ ret' = Returned(ReverseTask_init_alphabet(args.num_symbols))
    /\ UNCHANGED <<args, task>> /\ NoStack /\ NoLoop

NextAlphabet == CFGAlphabet \/ ReverseAlphabet

SpecAlphabet == InitAlphabet /\ [][NextAlphabet]_vars

-----------------------------------------------------------------------------
(* _evaluate_step of ReverseTask and of LanguageModellingTask.  A Python   *)
(* value that may be None is None or <<n>>, as k is.  The loss is kept as  *)
(* the term it is computed from.                                           *)

\* y[:, j]
Column(y, j) == [row \in 1..Len(y) |-> y[row][j + 1]]

\* the index torch.max(a, 1) returns for one row whose maximum is unique
ArgMax(row) == (CHOOSE i \in 1..Len(row) : \A n \in 1..Len(row) : row[n] <= row[i]) - 1

\* the rows of the batch picked by a mask, in their order
RECURSIVE Masked(_, _)
Masked(indices, n) ==
    IF n = 0 THEN <<>>
    ELSE IF indices[n] THEN Append(Masked(indices, n - 1), n)
    ELSE Masked(indices, n - 1)

\* t[indices]
Index(t, indices) == [i \in 1..Len(Masked(indices, Len(indices))) |->
                         t[Masked(indices, Len(indices))[i]]]

\* len(torch.nonzero(t)) for a tensor of 0s and 1s, and sum(t)
RECURSIVE Sum(_)
Sum(t) == IF t = <<>> THEN 0 ELSE t[1] + Sum(Tail(t))

\* (a == b) elementwise, as 0s and 1s
Eq(a, b) == [i \in 1..Len(a) |-> IF a[i] = b[i] THEN 1 ELSE 0]

\* self.criterion(a, y), not evaluated
Criterion(a, y) == [input |-> a, target |-> y]

\* lines 87-92 of ReverseTask._evaluate_step
ReverseCount(valid_a, valid_y) ==
    [loss |-> <<Criterion(valid_a, valid_y)>>,
     correct |-> <<Sum(Eq([i \in 1..Len(valid_a) |-> ArgMax(valid_a[i])], valid_y))>>,
     total |-> <<Len(valid_a)>>]

\* ReverseTask._evaluate_step(x, y, a, j), given indices of line 79
ReverseStep(y, a, j, indices) ==
    IF Len(Index(a, indices)) = 0
    THEN [loss |-> None, correct |-> None, total |-> None]
    ELSE ReverseCount(Index(a, indices), Index(Column(y, j), indices))

\* ReverseTask._evaluate_step(x, y, a, j)
Reverse_evaluate_step(self, y, a, j) ==
    ReverseStep(y, a, j,
                [row \in 1..Len(y) |-> y[row][j + 1] # self.alphabet[self.null]])

\* lines 196-199 of LanguageModellingTask._evaluate_step
ValidX(self, y, j) ==
    [row \in 1..Len(y) |->
        IF y[row][j + 1] # self.alphabet[self.null]
           /\ y[row][j + 1] \in self.to_predict_code
        THEN 1 ELSE 0]

\* a * b elementwise
Times(a, b) == [i \in 1..Len(a) |-> a[i] * b[i]]

\* lines 201-206, given valid_x
LMCount(y, a, j, valid_x) ==
    [loss |-> <<[valid_x |-> valid_x, criterion |-> Criterion(a, Column(y, j))]>>,
     correct |-> <<Sum(Times(valid_x,
                             Eq([i \in 1..Len(a) |-> ArgMax(a[i])], Column(y, j))))>>,
     total |-> <<Sum(valid_x)>>]

\* LanguageModellingTask._evaluate_step(x, y, a, j)
LM_evaluate_step(self, y, a, j) == LMCount(y, a, j, ValidX(self, y, j))

\* the number of rows of a mini-batch
Rows == 2

\* the length of the target sequences
max_y_length == 2

\* network outputs for one row over three symbols: one per arg-max
Scores == {<<3, 1, 2>>, <<1, 3, 2>>, <<1, 2, 3>>}

\* the task objects whose evaluation rule is studied: three symbols each, the
\* null symbol encoded highest
EvalTasks ==
    {[task |-> "ReverseTask", alphabet |-> ReverseTask_init_alphabet(2),
      null |-> ReverseNull(2), to_predict_code |-> {}]}
    \cup {[task |-> "LanguageModellingTask",
           alphabet |-> CFGTask_init_alphabet(<<"(", ")">>, "#"),
           null |-> "#", to_predict_code |-> p] : p \in {{0}, {0, 1}, {1, 2}}}

InitEval ==
    /\ StackIdle /\ LoopIdle
    /\ ret = Pending /\ task = <<>>
    /\ \E self \in EvalTasks,
          y \in [1..Rows -> [1..max_y_length -> 0..2]],
          a \in [1..Rows -> Scores],
          j \in 0..max_y_length - 1 :
          args = [self |-> self, y |-> y, a |-> a, j |-> j]

ReverseEvaluateStep ==
    /\ ret = Pending /\ args.self.task = "ReverseTask"
    /\ ret' = Returned(Reverse_evaluate_step(args.self, args.y, args.a, args.j))
    /\ UNCHANGED <<args, task>> /\ NoStack /\ NoLoop

LMEvaluateStep ==
    /\ ret = Pending /\ args.self.task = "LanguageModellingTask"
    /\ ret' = Returned(LM_evaluate_step(args.self, args.y, args.a, args.j))
    /\ UNCHANGED <<args, task>> /\ NoStack /\ NoLoop

NextEval == ReverseEvaluateStep \/ LMEvaluateStep

SpecEval == InitEval /\ [][NextEval]_vars

-----------------------------------------------------------------------------
(* CFGTask: construction and data generation.  A sentence is a sequence of *)
(* terminals; generate of nltk.parse.generate is computed as nltk does.    *)

\* nltk's _generate_all and _generate_one: the sentences derived from the
\* sequence items, every nonterminal expanded at most depth - 1 levels deep
RECURSIVE GenerateAll(_, _, _), GenerateOne(_, _, _)
GenerateAll(grammar, items, depth) ==
    IF items = <<>> THEN {<<>>}
    ELSE {frag1 \o frag2 : frag1 \in GenerateOne(grammar, Head(items), depth),
                           frag2 \in GenerateAll(grammar, Tail(items), depth)}

GenerateOne(grammar, item, depth) ==
    IF depth <= 0 THEN {}
    ELSE IF is_terminal(item) THEN {<<item.name>>}
    ELSE UNION {GenerateAll(grammar, prod.rhs, depth - 1) :
                    prod \in {p \in grammar : p.lhs = item.name}}

\* grammar.start()
Start == Nonterminal("S")

\* CFGTask.generate_sample_strings(): the sentences without duplicates
generate_sample_strings(grammar, sample_depth) ==
    GenerateAll(grammar, <<Start>>, sample_depth)

\* max([len(x) for x in self.sample_strings]) if there is one, else 0
MaxSampleLength(sample_strings) ==
    IF Cardinality(sample_strings) > 0
    THEN CHOOSE n \in {Len(x) : x \in sample_strings} :
             \A x \in sample_strings : Len(x) <= n
    ELSE 0

\* s[1:]
Rest(q) == IF q = <<>> THEN <<>> ELSE Tail(q)

\* a sentence cut to max_length symbols and filled up with the null symbol
Padded(q, max_length, null) ==
    [i \in 1..max_length |-> IF i <= Len(q) THEN q[i] ELSE null]

\* Task.sentences_to_codes(max_length, *sentences)
sentences_to_codes(self, max_length, sentences) ==
    [n \in 1..Len(sentences) |->
        [i \in 1..max_length |-> self.alphabet[Padded(sentences[n], max_length, self.null)[i]]]]

\* the one-hot vector of a code
OneHot(code, size) == [c \in 1..size |-> IF c = code + 1 THEN 1 ELSE 0]

\* Task.sentences_to_one_hot(max_length, *sentences)
sentences_to_one_hot(self, max_length, sentences) ==
    [n \in 1..Len(sentences) |->
        [i \in 1..max_length |->
            OneHot(sentences_to_codes(self, max_length, sentences)[n][i],
                   DictLen(self.alphabet))]]

\* CFGTask.get_tensors(num_tensors) once x_raw is drawn
CFGTensors(self, x_raw) ==
    [x |-> sentences_to_one_hot(self, self.max_length, x_raw),
     y |-> sentences_to_codes(self, self.max_length,
                              [n \in 1..Len(x_raw) |-> Rest(x_raw[n])])]

\* the productions the sampled grammars are made of
SampleProductions ==
    {[lhs |-> "S", rhs |-> <<Terminal("("), Nonterminal("S"), Terminal(")")>>],
     [lhs |-> "S", rhs |-> <<Terminal("("), Terminal(")")>>],
     [lhs |-> "S", rhs |-> <<Nonterminal("S"), Nonterminal("S")>>],
     [lhs |-> "T", rhs |-> <<Terminal("(")>>]}

MaxDepth == 3

MaxTensors == 1

\* the arguments of CFGTask(grammar, to_predict, sample_depth, ...)
InitCFGTask ==
    /\ StackIdle /\ LoopIdle
    /\ ret = Pending /\ task = <<>>
    /\ \E g \in SUBSET SampleProductions \ {{}}, depth \in 0..MaxDepth,
          train \in 0..MaxTensors, test \in 0..MaxTensors :
          args = [grammar |-> g, sample_depth |-> depth, null |-> "#",
                  max_length |-> 2, train_set_size |-> train, test_set_size |-> test]

\* task = CFGTask(...): the constructor runs to its return statement
Construct ==
    /\ task = <<>>
    /\ \E q \in Orders(RhsTerminals(args.grammar)) :
          task' = [grammar |-> args.grammar,
                   null |-> args.null,
                   alphabet |-> CFGTask_init_alphabet(q, args.null),
                   sample_depth |-> args.sample_depth,
                   max_length |-> args.max_length,
                   train_set_size |-> args.train_set_size,
                   test_set_size |-> args.test_set_size,
                   sample_strings |->
                       generate_sample_strings(args.grammar, args.sample_depth),
                   max_sample_length |->
                       MaxSampleLength(generate_sample_strings(args.grammar,
                                                               args.sample_depth))]
    /\ ret' = Returned(<<>>)
    /\ UNCHANGED args /\ NoStack /\ NoLoop

\* task.get_data(): random.choice raises IndexError on an empty list, and is
\* called only when a tensor is asked for
GetData ==
    /\ task # <<>> /\ ret = Returned(<<>>)
    /\ IF task.sample_strings = {} /\ task.train_set_size + task.test_set_size > 0
       THEN ret' = Raised("IndexError") /\ task' = task
       ELSE \E train \in [1..task.train_set_size -> task.sample_strings],
               test \in [1..task.test_set_size -> task.sample_strings] :
               /\ task' = [train |-> CFGTensors(task, train),
                           test |-> CFGTensors(task, test)] @@ task
               /\ ret' = Returned([data |-> TRUE])
    /\ UNCHANGED args /\ NoStack /\ NoLoop

NextCFGTask == Construct \/ GetData

SpecCFGTask == InitCFGTask /\ [][NextCFGTask]_vars

-----------------------------------------------------------------------------
(* ReverseTask and ReverseDeletionTask: data generation *)

\* s[::-1] left as it is
Unreversed(q) == q

\* s[::-1]
Reversed(q) == [i \in 1..Len(q) |-> q[Len(q) + 1 - i]]

\* [self.null for _ in xrange(n)]
Repeat(x, n) == [i \in 1..n |-> x]

\* min(max(self.min_length, length), self.max_length)
ClampLength(self, length) ==
    min(IF self.min_length > length THEN self.min_length ELSE length, self.max_length)

\* the values int(random.gauss(...)) can take that matter: around the range
GaussLengths(self) == (self.min_length - 1)..(self.max_length + 1)

\* ReverseTask.randstr(): the strings it can return
randstr(self) ==
    UNION {{[i \in 1..ClampLength(self, length) |-> Unicode(w[i])] :
                w \in [1..ClampLength(self, length) -> 0..self.num_symbols - 1]} :
           length \in GaussLengths(self)}

\* the raw target of ReverseTask.get_tensors for input x
ReverseTarget(self, x) == Repeat(self.null, Len(x)) \o Reversed(x)

\* the loop of ReverseDeletionTask.reverse_with_delete: t after s is read
RECURSIVE KeepSmall(_, _)
KeepSmall(q, large_symbol) ==
    IF q = <<>> THEN <<>>
    ELSE IF ToInt(Head(q)) < large_symbol
         THEN <<Head(q)>> \o KeepSmall(Tail(q), large_symbol)
         ELSE KeepSmall(Tail(q), large_symbol)

\* ReverseDeletionTask.reverse_with_delete(s)
reverse_with_delete(self, q) == Reversed(KeepSmall(q, self.num_symbols \div 2))

\* the raw target of ReverseDeletionTask.get_tensors for input x
DeletionTarget(self, x) == Repeat(self.null, Len(x)) \o reverse_with_delete(self, x)

\* what get_tensors returns, with the raw lists it was made from
Tensors(self, x_raw, y_raw) ==
    [x_raw |-> x_raw, y_raw |-> y_raw,
     x_var |-> sentences_to_one_hot(self, self.max_x_length, x_raw),
     y_var |-> sentences_to_codes(self, self.max_y_length, y_raw)]

MaxLength == 2

\* ReverseTask.Params(min_length, max_length, num_symbols)
ReverseParams(name, min_length, max_length, num_symbols) ==
    [task |-> name, min_length |-> min_length, max_length |-> max_length,
     num_symbols |-> num_symbols, null |-> ReverseNull(num_symbols),
     alphabet |-> ReverseTask_init_alphabet(num_symbols),
     max_x_length |-> max_length * 2, max_y_length |-> max_length * 8]

InitReverse ==
    /\ StackIdle /\ LoopIdle
    /\ ret = Pending /\ args = <<>>
    /\ \E name \in {"ReverseTask", "ReverseDeletionTask"},
          min_length \in 0..MaxLength, num_symbols \in 1..MaxSymbols :
          task = ReverseParams(name, min_length, MaxLength, num_symbols)

\* ReverseTask.get_tensors(num_tensors)
ReverseGetTensors ==
    /\ ret = Pending /\ task.task = "ReverseTask"
    /\ \E num_tensors \in 1..MaxTensors :
          \E x_raw \in [1..num_tensors -> randstr(task)] :
              ret' = Returned(Tensors(task, x_raw,
                                      [n \in 1..num_tensors |->
                                          ReverseTarget(task, x_raw[n])]))
    /\ UNCHANGED <<args, task>> /\ NoStack /\ NoLoop

\* ReverseDeletionTask.get_tensors(num_tensors)
DeletionGetTensors ==
    /\ ret = Pending /\ task.task = "ReverseDeletionTask"
    /\ \E num_tensors \in 1..MaxTensors :
          \E x_raw \in [1..num_tensors -> randstr(task)] :
              ret' = Returned(Tensors(task, x_raw,
                                      [n \in 1..num_tensors |->
                                          DeletionTarget(task, x_raw[n])]))
    /\ UNCHANGED <<args, task>> /\ NoStack /\ NoLoop

NextReverse == ReverseGetTensors \/ DeletionGetTensors

SpecReverse == InitReverse /\ [][NextReverse]_vars

-----------------------------------------------------------------------------
(* src/cfg.py: data generation *)

DEPTH == 5

MIN_LENGTH == 2

MAX_LENGTH == 2 ^ (DEPTH - 1)

BATCH_SIZE == 10

\* code_for = {u'(': 0, u')': 1, u'[': 2, u']': 3, '#': 4}
code_for == [x \in {"(", ")", "[", "]", "#"} |->
                CASE x = "(" -> 0 [] x = ")" -> 1 [] x = "[" -> 2 [] x = "]" -> 3
                  [] x = "#" -> 4]

\* grammar._lhs_index[S]: the derivations of S, in the order of the grammar
Derivations ==
    <<<<Nonterminal("S"), Nonterminal("S")>>,
      <<Terminal("("), Nonterminal("S"), Terminal(")")>>,
      <<Terminal("("), Terminal(")")>>,
      <<Terminal("["), Nonterminal("S"), Terminal("]")>>,
      <<Terminal("["), Terminal("]")>>>>

\* generate_sample run on the pending symbols prods, the outcomes of its
\* random.choice calls being choices: frags at the end, and Unfinished when
\* the choices do not bring the derivation to its end or are not all used
Unfinished == <<"unfinished">>

RECURSIVE generate_sample(_, _, _)
generate_sample(prods, choices, frags) ==
    IF prods = <<>> THEN (IF choices = <<>> THEN frags ELSE Unfinished)
    ELSE IF is_terminal(Head(prods))
         THEN generate_sample(Tail(prods), choices, Append(frags, Head(prods).name))
         ELSE IF choices = <<>> THEN Unfinished
              ELSE generate_sample(Derivations[Head(choices)] \o Tail(prods),
                                   Tail(choices), frags)

\* randstr() for the given outcomes of random.choice
cfg_randstr(choices) ==
    [i \in 1..Len(generate_sample(<<Start>>, choices, <<>>)) |->
        code_for[generate_sample(<<Start>>, choices, <<>>)[i]]]

MaxChoices == 3

MaxPairs == 9

\* the choices that derive n bracket pairs one after the other
PairChoices(n) == [i \in 1..2 * n - 1 |-> IF i % 2 = 1 /\ i < 2 * n - 1 THEN 1 ELSE 3]

\* outcomes of random.choice studied: every derivation of at most MaxChoices
\* steps, and long rows of pairs
Choices ==
    {q \in UNION {[1..n -> 1..Len(Derivations)] : n \in 1..MaxChoices} :
        generate_sample(<<Start>>, q, <<>>) # Unfinished}
    \cup {PairChoices(n) : n \in 1..MaxPairs}

\* the values int(random.gauss(MEAN_LENGTH, STD_LENGTH)) is studied for
Gauss == 0..MAX_LENGTH + 1

\* onehot(b)
onehot(b) == [i \in 1..DictLen(code_for) |-> IF i - 1 = b THEN 1 ELSE 0]

\* min(max(MIN_LENGTH - 1, g), len(x) - 1)
PrefixLength(g, x) == min(IF MIN_LENGTH - 1 > g THEN MIN_LENGTH - 1 ELSE g, Len(x) - 1)

\* row i of X after the inner loop of get_tensors has written length symbols
Row(x, length) ==
    [j \in 1..MAX_LENGTH |-> IF j <= length THEN onehot(x[j])
                             ELSE onehot(DictLen(code_for) - 1)]

\* get_tensors(B) for the strings X_raw and the draws gauss: X[i, j, :] with
\* j >= MAX_LENGTH raises IndexError
cfg_get_tensors(X_raw, gauss) ==
    IF \E i \in 1..Len(X_raw) : PrefixLength(gauss[i], X_raw[i]) > MAX_LENGTH
    THEN Raised([X_raw |-> X_raw,
                 length |-> [i \in 1..Len(X_raw) |-> PrefixLength(gauss[i], X_raw[i])]])
    ELSE Returned([X_raw |-> X_raw,
                   length |-> [i \in 1..Len(X_raw) |-> PrefixLength(gauss[i], X_raw[i])],
                   X |-> [i \in 1..Len(X_raw) |->
                             Row(X_raw[i], PrefixLength(gauss[i], X_raw[i]))],
                   Y |-> [i \in 1..Len(X_raw) |->
                             X_raw[i][PrefixLength(gauss[i], X_raw[i]) + 1]]])

\* a call get_tensors(B)
InitTensors ==
    /\ StackIdle /\ LoopIdle
    /\ ret = Pending /\ task = <<>>
    /\ \E B \in 1..MaxTensors : args = [B |-> B]

GetTensors ==
    /\ ret = Pending
    /\ \E choices \in [1..args.B -> Choices], gauss \in [1..args.B -> Gauss] :
          ret' = cfg_get_tensors([i \in 1..args.B |-> cfg_randstr(choices[i])], gauss)
    /\ UNCHANGED <<args, task>> /\ NoStack /\ NoLoop

NextTensors == GetTensors

SpecTensors == InitTensors /\ [][NextTensors]_vars

-----------------------------------------------------------------------------
(* src/cfg.py: the epoch loop, train and evaluate.  An example is the      *)
(* number of its row in the training set as get_tensors built it.  Of the  *)
(* controller only the length of its stack's log is kept.                  *)

EPOCHS == 30

\* the rows of train_X = get_tensors(800)
TRAIN_SIZE == 800

\* the rows of dev_X = get_tensors(100)
DEV_SIZE == 100

MaxEpochs == 2

\* the permutations torch.randperm(n) is studied for: the identity, the
\* reversal and a rotation
Shuffles(n) ==
    {[x \in 1..n |-> x], [x \in 1..n |-> n + 1 - x], [x \in 1..n |-> (x % n) + 1]}

\* train_X[perm]
Permuted(t, p) == [x \in 1..Len(t) |-> t[p[x]]]

\* train_X[i:i + BATCH_SIZE]
Slice(t, from, to) == SubSeq(t, from + 1, min(to, Len(t)))

\* "for batch, i in enumerate(xrange(0, len(train_X.data) - BATCH_SIZE,
\* BATCH_SIZE))": where the script goes when the loop variable would be next_i
AfterBatch(next_i, len) == IF next_i < len - BATCH_SIZE THEN "batch" ELSE "evaluate"

\* the loop over j making one step too many
AfterForwardInclusive(next_j, then) == IF next_j <= MAX_LENGTH THEN "forward" ELSE then

\* "for j in xrange(MAX_LENGTH)": where the script goes when j would be next_j
AfterForward(next_j, then) == IF next_j < MAX_LENGTH THEN "forward" ELSE then

\* model.init_stack(batch_size): the controller gets a stack with an empty log
init_stack(n) == 0

\* model.forward(x): the controller reads, computes and calls its stack's
\* forward once, which adds one time step to the log
model_forward(log) == log + 1

\* the script after its definitions, before the epoch loop
InitTrain ==
    /\ StackIdle
    /\ args = <<>> /\ ret = <<>> /\ task = <<>>
    /\ pc = "epoch" /\ epoch = 0 /\ frame = <<>>
    /\ train_X = [x \in 1..TRAIN_SIZE |-> x]
    /\ model_stack = 0
    /\ batches = <<>> /\ events = <<>> /\ prev = <<>>

\* the script touches neither the stack under study nor a task object
OnlyScript == NoStack /\ UNCHANGED taskVars

\* lines 166-170 and 103-106: an epoch starts, the training set is shuffled,
\* train is called and reaches its loop
StartEpoch ==
    /\ pc = "epoch" /\ epoch < EPOCHS /\ epoch < MaxEpochs
    /\ \E p \in Shuffles(TRAIN_SIZE) : train_X' = Permuted(train_X, p)
    /\ frame' = [i |-> 0, batch |-> 0]
    /\ batches' = <<>>
    /\ pc' = AfterBatch(0, TRAIN_SIZE)
    /\ UNCHANGED <<epoch, model_stack, events, prev>>
    /\ OnlyScript

\* lines 108-115: the mini-batch is sliced and the stack initialised
BatchStart ==
    /\ pc = "batch"
    /\ frame' = [i |-> frame.i, batch |-> frame.batch, j |-> 0,
                 X |-> Slice(train_X, frame.i, frame.i + BATCH_SIZE)]
    /\ model_stack' = init_stack(BATCH_SIZE)
    /\ events' = <<<<"init_stack", BATCH_SIZE>>>>
    /\ prev' = events
    /\ pc' = AfterForward(0, "zero_grad")
    /\ UNCHANGED <<epoch, train_X, batches>>
    /\ OnlyScript

\* lines 117-119: one controller step of train
TrainForward ==
    /\ pc = "forward" /\ Head(events) = <<"init_stack", BATCH_SIZE>>
    /\ model_stack' = model_forward(model_stack)
    /\ events' = Append(events, <<"forward", frame.j>>)
    /\ frame' = [frame EXCEPT !.j = @ + 1]
    /\ pc' = AfterForward(frame.j + 1, "zero_grad")
    /\ UNCHANGED <<epoch, train_X, batches, prev>>
    /\ OnlyScript

\* lines 121-130: the loss of the batch, then optimizer.zero_grad()
ZeroGrad ==
    /\ pc = "zero_grad"
    /\ events' = Append(events, <<"zero_grad", 0>>)
    /\ pc' = "backward"
    /\ UNCHANGED <<epoch, frame, train_X, model_stack, batches, prev>>
    /\ OnlyScript

\* line 131: batch_loss.backward()
Backward ==
    /\ pc = "backward"
    /\ events' = Append(events, <<"backward", 0>>)
    /\ pc' = "step"
    /\ UNCHANGED <<epoch, frame, train_X, model_stack, batches, prev>>
    /\ OnlyScript

\* lines 132-136 and 108: optimizer.step(), then the loop goes on or ends
OptimizerStep ==
    /\ pc = "step"
    /\ events' = Append(events, <<"step", 0>>)
    /\ batches' = Append(batches, frame.X)
    /\ frame' = [i |-> frame.i + BATCH_SIZE, batch |-> frame.batch + 1]
    /\ pc' = AfterBatch(frame.i + BATCH_SIZE, TRAIN_SIZE)
    /\ UNCHANGED <<epoch, train_X, model_stack, prev>>
    /\ OnlyScript

\* lines 171 and 139-145: evaluate(dev_X, dev_Y) initialises the stack
EvaluateStart ==
    /\ pc = "evaluate"
    /\ frame' = [j |-> 0]
    /\ model_stack' = init_stack(DEV_SIZE)
    /\ events' = <<<<"init_stack", DEV_SIZE>>>>
    /\ prev' = events
    /\ pc' = AfterForward(0, "evaluated")
    /\ UNCHANGED <<epoch, train_X, batches>>
    /\ OnlyScript

\* lines 147-149: one controller step of evaluate
EvaluateForward ==
    /\ pc = "forward" /\ Head(events) = <<"init_stack", DEV_SIZE>>
    /\ model_stack' = model_forward(model_stack)
    /\ events' = Append(events, <<"forward", frame.j>>)
    /\ frame' = [frame EXCEPT !.j = @ + 1]
    /\ pc' = AfterForward(frame.j + 1, "evaluated")
    /\ UNCHANGED <<epoch, train_X, batches, prev>>
    /\ OnlyScript

\* lines 151-160 and 166: evaluate reports and the epoch ends
EvaluateEnd ==
    /\ pc = "evaluated"
    /\ epoch' = epoch + 1
    /\ pc' = "epoch"
    /\ UNCHANGED <<frame, train_X, model_stack, batches, events, prev>>
    /\ OnlyScript

NextTrain ==
    \/ StartEpoch \/ BatchStart \/ TrainForward \/ ZeroGrad \/ Backward
    \/ OptimizerStep \/ EvaluateStart \/ EvaluateForward \/ EvaluateEnd

SpecTrain == InitTrain /\ [][NextTrain]_vars

(* Properties *)

\* C1: a completed forward(v, u, d) leaves every old entry i with strength
\* max(0, s[i] - max(0, u - sum of the old strengths above i)) and gives the
\* appended top entry strength d, whatever u is.
C1_StrengthUpdate ==
    Completed =>
        /\ Len(s) = Len(pre.s) + 1
        /\ \A b \in Batch :
            /\ s[Len(s)][b] = Last.d[b]
            /\ \A i \in 1..Len(pre.s) :
                  s[i][b] = AtLeastZero(pre.s[i][b]
                               - AtLeastZero(Last.u[b] - SumAbove(pre.s, i, b)))

\* a call with a fractional pop that empties the top entry and reaches the next
C1_Witness ==
    /\ Completed
    /\ Len(s) = 3
    /\ pre.s[2][1] > 0 /\ s[2][1] = 0
    /\ s[1][1] > 0 /\ s[1][1] < pre.s[1][1]
    /\ s[3][1] = Last.d[1] /\ Last.d[1] > 0

\* C2: in single-read mode the returned read is, per batch element, the sum
\* over the updated log of min(s'[i], max(0, 1 - used_i)) * V[i], used_i being
\* the updated strengths of the entries pushed after i.
C2_SingleRead ==
    (Completed /\ k = None) =>
        \A b \in Batch : \A e \in Emb : r[b][e] = Blend(1, Len(s), b, e)

\* a read that blends two entries, the lower one capped by the headroom
C2_Witness ==
    /\ Completed /\ k = None
    /\ Len(s) >= 2
    /\ \E i \in 1..Len(s) - 1 : Weight(1, i, 1) > 0 /\ Weight(1, i, 1) < s[i][1]

\* one call on a classical stack st for batch element b: pop once if u = 1
\* (nothing to pop when empty), then push the call's vector if d = 1
ClassicalCall(st, c, b) ==
    LET popped == IF c.u[b] = Scale /\ st # <<>> THEN SubSeq(st, 1, Len(st) - 1) ELSE st
    IN  IF c.d[b] = Scale
        THEN Append(popped, [e \in Emb |-> c.v.data[(b - 1) * embedding_size + e]])
        ELSE popped

\* the classical stack of batch element b after the first n calls
RECURSIVE Classical(_, _)
Classical(n, b) ==
    IF n = 0 THEN <<>> ELSE ClassicalCall(Classical(n - 1, b), trace[n], b)

\* every pop and push strength given so far for batch element b was 0 or 1
Discrete(b) ==
    \A n \in 1..Len(trace) : trace[n].u[b] \in {0, Scale} /\ trace[n].d[b] \in {0, Scale}

\* C3: while every u and d is exactly 0 or 1, the single read of each call is
\* the top element of the classical stack driven by the same calls, and the
\* zero vector when that stack is empty.
C3_HardStack ==
    (Completed /\ k = None) =>
        \A b \in Batch :
            Discrete(b) =>
                \A st \in {Classical(Len(trace), b)} :
                    r[b] = IF st = <<>> THEN [e \in Emb |-> 0]
                           ELSE [e \in Emb |-> st[Len(st)][e] * Scale]

\* push 1, push 2, pop (the read is 1 again), pop (the read is zero)
C3_Witness ==
    /\ Completed /\ k = None
    /\ Discrete(1)
    /\ Len(trace) = 4
    /\ Classical(2, 1) = <<<<1>>, <<2>>>>
    /\ Classical(3, 1) = <<<<1>>>>
    /\ pre.r = <<<<1 * Scale>>>>
    /\ Last.u[1] = Scale /\ Last.d[1] = 0
    /\ r = <<<<0>>>>

\* C4: with u and d in [0, 1] every stored strength is in [0, 1], and a call
\* never raises the strength of an entry that was there before it.
C4_StrengthRange ==
    /\ \A i \in 1..Len(s) : \A b \in Batch : s[i][b] >= 0 /\ s[i][b] <= Scale
    /\ Completed =>
          \A i \in 1..Len(pre.s) : \A b \in Batch : s[i][b] <= pre.s[i][b]

\* a pop larger than the top entry: the clamp at 0 acts, the rest goes deeper
C4_Witness ==
    /\ Completed
    /\ Len(pre.s) >= 2
    /\ Last.u[1] > pre.s[Len(pre.s)][1]
    /\ s[Len(pre.s)][1] = 0
    /\ \E i \in 1..Len(pre.s) - 1 : s[i][1] < pre.s[i][1]

\* C5: V and s have the same time length, 0 after construction and one more
\* after every forward call, a call with d = 0 included.
C5_SameLength ==
    /\ Len(V) = Len(s)
    /\ Len(s) = Len(trace)
    /\ Completed => Len(V) = Len(pre.V) + 1 /\ Len(s) = Len(pre.s) + 1

\* a zero-strength push has added a slot
C5_Witness ==
    /\ Completed
    /\ Last.d[1] = 0
    /\ Len(V) = 2 /\ Len(s) = 2

\* C6: a call with d = 0 and u = 0 returns the read of the previous call (the
\* zero read when it is the first call) and still adds a log slot.
C6_ZeroPush ==
    (/\ Completed
     /\ \A b \in Batch : Last.u[b] = 0 /\ Last.d[b] = 0) =>
        /\ Len(s) = Len(pre.s) + 1
        /\ r = IF Len(trace) > 1 THEN pre.r
               ELSE IF k = None THEN Zeros2(batch_size, embedding_size)
               ELSE Zeros3(batch_size, k[1], embedding_size)

\* a zero push over a log whose read is not zero
C6_Witness ==
    /\ Completed
    /\ Len(trace) > 1
    /\ Last.u[1] = 0 /\ Last.d[1] = 0
    /\ r[1][1] > 0
    /\ Last.v.data[1] # pre.V[Len(pre.V)][1][1]

\* C7: with k reads, level 0 is the cumulative read C_1 and level j > 0 is
\* C_(j+1) - C_j, C_T being the read with threshold T; the weights of each
\* level sum to at most 1.
C7_MultiRead ==
    (Completed /\ k # None) =>
        \A b \in Batch : \A j \in 0..k[1] - 1 :
            /\ \A e \in Emb :
                  r[b][j + 1][e] = Blend(j + 1, Len(s), b, e)
                                   - (IF j > 0 THEN Blend(j, Len(s), b, e) ELSE 0)
            /\ TotalWeight(j + 1, Len(s), b)
               - (IF j > 0 THEN TotalWeight(j, Len(s), b) ELSE 0) <= Scale

\* three levels all of which read something
C7_Witness ==
    /\ Completed /\ k # None /\ k[1] >= 3
    /\ \A j \in 1..3 : r[1][j][1] > 0
    /\ r[1][3][1] # r[1][2][1]

\* the calls so far are the first n calls of the self-test, in its order
TestPrefix(n) ==
    /\ Len(trace) = n
    /\ \A i \in 1..n : /\ trace[i].v = TestCalls[i].v
                       /\ trace[i].u = TestCalls[i].u
                       /\ trace[i].d = TestCalls[i].d

\* C8: the self-test on Stack(1, 1): after forward(1, 0, 0.8) the strengths
\* are [0.8] and the read 0.8; after forward(2, 0.1, 0.5) they are [0.7, 0.5]
\* and 1.5; after forward(3, 0.9, 0.9) they are [0.3, 0, 0.9] and 2.8.
C8_SelfTest ==
    /\ TestPrefix(1) => s = << <<8>> >> /\ r = << <<8>> >>
    /\ TestPrefix(2) => s = << <<7>>, <<5>> >> /\ r = << <<15>> >>
    /\ TestPrefix(3) => s = << <<3>>, <<0>>, <<9>> >> /\ r = << <<28>> >>

\* the self-test has run to its end
C8_Witness == TestPrefix(3) /\ Completed /\ r = << <<28>> >> /\ Len(V) = 3

\* C9: the strengths and the read of batch element b depend only on the
\* arguments given for b: a stack driven with the batch in another order, and
\* with other arguments for the other elements, holds b's strengths and b's
\* read at b's new position, in single-read and in multi-read mode.
C9_BatchIndependence ==
    /\ Len(twin.s) = Len(s)
    /\ (r = <<>>) = (twin.r = <<>>)
    /\ \A b \in Batch \ foreign :
          /\ \A i \in 1..Len(s) : twin.s[i][perm[b]] = s[i][b]
          /\ r # <<>> => twin.r[perm[b]] = r[b]

\* the batch swapped and the other element driven differently, two calls deep
C9_Witness ==
    /\ Completed /\ Len(trace) = 2
    /\ perm = <<2, 1>> /\ foreign = {2}
    /\ k # None
    /\ twin.r[2] = r[1] /\ twin.r[1] # r[2] /\ r[1] # r[2]
    /\ s[1][1] < pre.s[1][1]

\* a call whose arguments do not have the shapes given at construction
Mismatched(c) ==
    \/ c.v.shape # <<batch_size, embedding_size>>
    \/ Len(c.u) # batch_size
    \/ Len(c.d) # batch_size

\* C10: a forward call whose v, u or d does not match batch_size and
\* embedding_size fails with an error and leaves V and s unchanged.
C10_ShapeMismatchFails ==
    (trace # <<>> /\ Mismatched(Last)) => (Last.raised /\ V = pre.V /\ s = pre.s)

\* the vector given for batch element b in call c, weighted by x
Weighted(c, b, x) == [e \in Emb |-> x * c.v.data[(b - 1) * embedding_size + e]]

\* C11: the first forward call on a fresh stack completes; its read holds only
\* the vector just pushed, weighted by d (so the zero vector when d = 0); with
\* k reads and d in [0, 1] the first level is that read and every level above
\* it is zero.
C11_FirstCall ==
    Len(trace) = 1 =>
        /\ ~Last.raised
        /\ \A b \in Batch :
              IF k = None
              THEN r[b] = Weighted(Last, b, Last.d[b])
              ELSE /\ Len(r[b]) = k[1]
                   /\ r[b][1] = Weighted(Last, b, Last.d[b])
                   /\ \A j \in 2..k[1] : r[b][j] = Weighted(Last, b, 0)

\* a first multi-read call that pushes nothing for one batch element and a
\* fraction for the other
C11_Witness ==
    /\ Len(trace) = 1 /\ Completed
    /\ k # None /\ k[1] >= 2 /\ batch_size = 2
    /\ Last.d = <<0, 4>>
    /\ r[1][1][1] = 0
    /\ r[2][1][1] > 0 /\ r[2][2][1] = 0

\* C12: forward only appends to V: after a call V is the old V, every vector
\* of it in place and unchanged, followed by v as the last time step, whatever
\* u and d are; batch_size, embedding_size and k are never changed.
C12_AppendOnly ==
    [][/\ ~trace'[Len(trace')].raised =>
             V' = V \o <<View(trace'[Len(trace')].v, batch_size, embedding_size)>>
       /\ UNCHANGED <<batch_size, embedding_size, k>>]_vars

\* two vectors in the log, the older one still first, after a call that popped
C12_Witness ==
    /\ Completed /\ Len(V) = 2 /\ Len(pre.V) = 1
    /\ V[1] = pre.V[1] /\ V[2] # V[1]
    /\ V[2] = View(Last.v, batch_size, embedding_size)
    /\ \E b \in Batch : Last.u[b] > 0 /\ s[1][b] < pre.s[1][b]

\* the coefficient the read loop gives entry i (0-based) of the present log
\* for threshold T, per batch element
Coefficient(i, T) == Coeffs(s, zero, i, Len(s) - 1, T)

\* C20: in multi-read mode, with strengths in [0, 1], the coefficient entry i
\* has in level j after the subtraction, min(s'[i], max(0, j + 1 - used_i))
\* - min(s'[i], max(0, j - used_i)), is never negative; so no level of the
\* read of non-negative vectors is negative.
C20_LevelCoefficients ==
    (Completed /\ k # None) =>
        \A b \in Batch : \A j \in 0..k[1] - 1 :
            /\ \A i \in 0..Len(s) - 1 :
                  Coefficient(i, j + 1)[b] - Coefficient(i, j)[b] >= 0
            /\ \A e \in Emb : r[b][j + 1][e] >= 0

\* an entry with two entries of strength 1 above it: nothing in levels 0 and 1,
\* its whole strength in level 2
C20_Witness ==
    /\ Completed /\ k # None /\ k[1] >= 3
    /\ Len(s) = 3
    /\ s[1][1] > 0 /\ s[2][1] = Scale /\ s[3][1] = Scale
    /\ Coefficient(0, 2)[1] = 0
    /\ Coefficient(0, 3)[1] - Coefficient(0, 2)[1] = s[1][1]
    /\ r[1][3][1] = s[1][1] * V[1][1][1]

\* the symbols the alphabet of the task in args has to encode
Symbols ==
    IF args.task = "CFGTask" THEN RhsTerminals(args.grammar) \cup {args.null}
    ELSE {Unicode(i) : i \in 0..args.num_symbols}

\* C17: _init_alphabet gives every terminal and the null symbol a code of its
\* own, the codes being exactly 0..n-1 for the n symbols and the null symbol
\* holding n-1, for every grammar and every null symbol, a null symbol that
\* is a terminal of the grammar included.
C17_AlphabetCodes ==
    (ret.done /\ args.task \in {"CFGTask", "ReverseTask"}) =>
        /\ DOMAIN ret.value = Symbols
        /\ \A x, y \in Symbols : ret.value[x] = ret.value[y] => x = y
        /\ {ret.value[x] : x \in Symbols} = 0..Cardinality(Symbols) - 1
        /\ ret.value[args.null] = Cardinality(Symbols) - 1

\* the rows of the step in args that count: the target is not the null symbol
\* and, for a LanguageModellingTask, is one of the symbols to predict
Counted ==
    {row \in 1..Len(args.y) :
        /\ args.y[row][args.j + 1] # args.self.alphabet[args.self.null]
        /\ args.self.task = "LanguageModellingTask" =>
              args.y[row][args.j + 1] \in args.self.to_predict_code}

\* the counted rows whose arg-max prediction is the target
Hits == {row \in Counted : ArgMax(args.a[row]) = args.y[row][args.j + 1]}

\* C13: _evaluate_step returns (loss, correct, total) with total the number of
\* rows whose target is not NULL (and is in to_predict, for a
\* LanguageModellingTask) and correct the number of those rows whose arg-max
\* is the target, so 0 <= correct <= total <= batch size; a step with no such
\* row gives 0 for both, in ReverseTask as in LanguageModellingTask.
C13_EvaluateStep ==
    ret.done =>
        /\ ret.value.total = <<Cardinality(Counted)>>
        /\ ret.value.correct = <<Cardinality(Hits)>>
        /\ Cardinality(Hits) <= Cardinality(Counted)
        /\ Cardinality(Counted) <= Len(args.y)

\* the constructor or a data generation call has returned normally
CompletedCall == ret.done /\ ~ret.raised

\* C16: when the grammar yields no sentence at sample_depth, CFGTask reports a
\* failure to its caller at construction or data generation: no constructor
\* call completes with an empty sample set and no get_data call completes
\* with an empty dataset.
C16_EmptySampleFails ==
    (task # <<>> /\ task.sample_strings = {}) => ~CompletedCall

\* the positions of x, last first, whose symbol is below the half of the
\* alphabet when only those are to be kept
RECURSIVE Backwards(_, _, _)
Backwards(x, n, limit) ==
    IF n = 0 THEN <<>>
    ELSE IF ToInt(x[n]) < limit THEN <<x[n]>> \o Backwards(x, n - 1, limit)
    ELSE Backwards(x, n - 1, limit)

Decoded(vec) ==
    IF \E c \in 1..Len(vec) : vec = onehot(c - 1)
    THEN (CHOOSE c \in 1..Len(vec) : vec = onehot(c - 1)) - 1
    ELSE 0 - 1

\* the code of the null symbol '#'
NULL == code_for["#"]

\* C18: every row of X built by get_tensors of src/cfg.py is one-hot at every
\* position: the first length symbols of the sampled string, none of them
\* NULL and all written at positions below MAX_LENGTH, then NULL at every
\* later position; Y[i] is the symbol of the string that follows that prefix.
C18_RowsPadded ==
    ret.done =>
        \A i \in 1..Len(ret.value.X_raw) :
            /\ ret.value.length[i] <= MAX_LENGTH
            /\ ~ret.raised =>
                  /\ \A j \in 1..MAX_LENGTH :
                        Decoded(ret.value.X[i][j]) =
                            IF j <= ret.value.length[i] THEN ret.value.X_raw[i][j]
                            ELSE NULL
                  /\ \A j \in 1..ret.value.length[i] : ret.value.X_raw[i][j] # NULL
                  /\ ret.value.Y[i] = ret.value.X_raw[i][ret.value.length[i] + 1]

\* train has returned
Trained == pc = "evaluate"

\* C14: in each epoch the shuffled training set is cut into mini-batches of
\* exactly BATCH_SIZE rows so that every training example is in exactly one
\* mini-batch trained on in that epoch: TRAIN_SIZE / BATCH_SIZE batches (80
\* for 800 examples and BATCH_SIZE 10), none skipped, none overlapping.
C14_EveryExampleOnce ==
    Trained =>
        /\ Len(batches) = TRAIN_SIZE \div BATCH_SIZE
        /\ \A b \in 1..Len(batches) : Len(batches[b]) = BATCH_SIZE
        /\ \A x \in 1..TRAIN_SIZE :
              Cardinality({<<b, n>> \in (1..Len(batches)) \X (1..BATCH_SIZE) :
                              n <= Len(batches[b]) /\ batches[b][n] = x}) = 1

\* the controller steps of one pass over the positions 0..MAX_LENGTH-1
Steps == [n \in 1..MAX_LENGTH |-> <<"forward", n - 1>>]

\* the calls of one mini-batch of train, and of one call of evaluate
TrainBatch ==
    <<<<"init_stack", BATCH_SIZE>>>> \o Steps
        \o <<<<"zero_grad", 0>>, <<"backward", 0>>, <<"step", 0>>>>

EvaluatePass == <<<<"init_stack", DEV_SIZE>>>> \o Steps

IsPrefix(a, b) == Len(a) <= Len(b) /\ a = SubSeq(b, 1, Len(a))

\* C15: for every mini-batch of train the stack is initialised, then the
\* controller is stepped exactly MAX_LENGTH times, at positions 0..MAX_LENGTH-1
\* in order and with no initialisation in between, then zero_grad, backward
\* and step happen once each, all before the next initialisation; the log of
\* the stack is empty when a batch starts and holds one entry per step of
\* this batch only.
C15_BatchOrder ==
    /\ IsPrefix(events, TrainBatch) \/ IsPrefix(events, EvaluatePass)
    /\ prev \in {<<>>, TrainBatch, EvaluatePass}
    /\ pc \in {"batch", "evaluate"} => events \in {<<>>, TrainBatch, EvaluatePass}
    /\ model_stack = Cardinality({n \in 1..Len(events) : events[n][1] = "forward"})
    /\ Len(events) = 1 => model_stack = 0
    /\ pc \in {"batch", "zero_grad", "backward", "step"} => Len(batches) = frame.batch

\* three controller steps into the second mini-batch of the second epoch
C15_Witness ==
    /\ epoch = 1 /\ pc = "forward"
    /\ frame.batch = 1 /\ frame.j = 3
    /\ prev = TrainBatch
    /\ Len(events) = 4 /\ model_stack = 3

\* the strength a completed call took from the entries that were there before it
RECURSIVE Removed(_, _)
Removed(n, b) == IF n = 0 THEN 0 ELSE (pre.s[n][b] - s[n][b]) + Removed(n - 1, b)

\* the call's pop strength and the strengths it found are not negative
NonNegative(b) ==
    /\ Last.u[b] >= 0
    /\ \A i \in 1..Len(pre.s) : pre.s[i][b] >= 0

\* C21: for u >= 0 and non-negative old strengths, a completed call takes from
\* the entries that were there before it exactly min(u, sum of their
\* strengths) in total, and it reduces such an entry only if it has brought
\* every entry pushed after it (among those) to strength 0.
C21_PopConservation ==
    Completed =>
        \A b \in Batch :
            NonNegative(b) =>
                /\ Removed(Len(pre.s), b) = Smaller(Last.u[b], SumAbove(pre.s, 0, b))
                /\ \A i \in 1..Len(pre.s) :
                      s[i][b] < pre.s[i][b] =>
                          \A j \in (i + 1)..Len(pre.s) : s[j][b] = 0

\* a pop of 1 on entries of strengths 1 and 0.4: the upper one is emptied, the
\* lower one loses the remaining 0.6 and keeps 0.4, all of u is used
C21_Witness ==
    /\ Completed
    /\ Len(pre.s) = 2
    /\ pre.s[1][1] = Scale /\ pre.s[2][1] = 4
    /\ Last.u[1] = Scale
    /\ s[2][1] = 0 /\ s[1][1] = 4
    /\ Removed(2, 1) = Scale

====
